---- MODULE Spec2Model ----
(***************************************************************************)
(* Approval reconciliation of phlegs12/unichain:                           *)
(*   POST                    src/src/app/api/store/solana-approval/route.ts *)
(*   transferApprovedTokens  src/src/app/api/store/solana-approval/route.ts *)
(*   verifySolanaApprovals   src/unnamed/part_000                           *)
(*                                                                         *)
(* The document store (collection solana_approvals) is the shared state.   *)
(* Each driver instance runs cycles: one find, then one loop iteration per *)
(* selected document.  The ledger is an external system: every RPC call    *)
(* returns any value of its result type or throws, so the calls of one     *)
(* loop iteration are inputs of the action that models the iteration, and  *)
(* every store call (find, updateOne) is a step of its own.                *)
(***************************************************************************)
EXTENDS Integers, Sequences, FiniteSets, TLC

\* ---------------------------------------------------------------- bounds
\* A run with one instance of each script holds up to MaxRecords documents of up
\* to MaxGrants grants; a run with two instances of one script holds up to
\* RaceRecords documents of up to RaceGrants grants.
MaxRecords == 2
MaxGrants == 2
RaceRecords == 1
RaceGrants == 1
MaxAmount == 1       \* token amounts the drivers read from the ledger: 0..MaxAmount
MaxGrantAmount == 3  \* token amounts in the sizing of one grant: 0..MaxGrantAmount
MaxFaults == 1       \* store calls that throw, at most, in one behaviour
MaxSubmits == 2      \* transfer batches the ledger accepts per document, at most

NoValue == "none"    \* null / undefined / absent field

\* The driver processes, each running runContinuously of one of the two scripts.
Procs == {"d1", "d2", "d3"}

\* which script each driver runs: one instance of each, two Verifier instances
\* and one Transfer Executor, or one Verifier and two Transfer Executor instances
Deployments ==
  { [d1 |-> "verifier", d2 |-> "executor", d3 |-> "off"],
    [d1 |-> "verifier", d2 |-> "verifier", d3 |-> "executor"],
    [d1 |-> "verifier", d2 |-> "executor", d3 |-> "executor"] }

\* ------------------------------------------------------------- addresses
\* new PublicKey(s) throws unless s is a base58 string of 32 bytes
ValidAddresses == {"O1", "D1", "D2", "A", "B", "C", "M1", "M2", "DEST", "DA"}

IsPublicKey(s) == s \in ValidAddresses

\* getKeypairFromPrivateKey: the public key of a well-formed secret key;
\* NoValue when the string is neither a 64-byte base64 key nor a JSON array
getKeypairFromPrivateKey(privateKeyString) ==
  CASE privateKeyString = "K1" -> "D1"
    [] privateKeyString = "K2" -> "D2"
    [] OTHER -> NoValue

\* --------------------------------------------------------- configuration
\* the lookup solanaConfig[network], were every network configured
AnyNetwork(network) == network # NoValue

\* solanaConfig has the single key 'mainnet-beta'; its fields come from the
\* environment and are fixed for a run.
SupportedNetwork(network) == network # NoValue /\ network = "mainnet-beta"

Configs ==
  { [delegateAddress |-> "D1", delegatePrivateKey |-> "K1", destinationAddress |-> "DEST"] }

\* ------------------------------------------------------- ingestion (POST)
GrantA == [tokenAccount |-> "A", mint |-> "M1", amount |-> 2]
GrantB == [tokenAccount |-> "B", mint |-> "M2", amount |-> 1]
GrantC == [tokenAccount |-> "C", mint |-> "M1", amount |-> 1]

\* the approvals arrays of the requests: none, one, two or three grants
ApprovalLists ==
  { SubSeq(<<GrantA, GrantB, GrantC>>, 1, n) : n \in 0..3 }

Requests ==
  { [owner |-> o, delegate |-> d, approvals |-> a, transactionSignature |-> s, network |-> n] :
      o \in {"O1"}, d \in {"D1"}, a \in ApprovalLists,
      s \in {"S1"}, n \in {"mainnet-beta"} }

\* the status of the response
PostStatus(body) ==
  IF \/ body.owner = NoValue \/ body.delegate = NoValue
     \/ body.transactionSignature = NoValue \/ body.network = NoValue
  THEN 400
  ELSE IF Len(body.approvals) = 0 THEN 400 ELSE 200

\* the document insertOne stores
NewDocument(body) ==
  [ owner |-> body.owner, delegate |-> body.delegate, approvals |-> body.approvals,
    transactionSignature |-> body.transactionSignature, network |-> body.network,
    executed |-> FALSE, verified |-> FALSE, reason |-> NoValue,
    transferred |-> FALSE, verificationResults |-> <<>>, transferResults |-> <<>>,
    transferTransactionSignature |-> 0 ]

VARIABLES
  store,        \* the collection: document _id -> document, _id in 1..Len(store)
  config,       \* the environment's configuration of 'mainnet-beta'
  script,       \* the script each driver runs
  pc,           \* each driver's position: "idle" (between cycles), "loop", "catch"
  approvals,    \* each driver's find result: <<[id, was]>>, was = state when read
  idx,          \* each driver's position in its find result
  caught,       \* the error a driver's catch block holds
  faults,       \* store calls that have thrown so far
  batches,      \* ledger: per document, the outcome of each batch it accepted
  everVerified, \* documents a Verifier cycle wrote verified: true for
  grantInput,   \* inputs of one grant's transfer sizing (specification SpecGrant)
  grantOutput   \* its result

vars == <<store, config, script, pc, approvals, idx, caught, faults, batches, everVerified,
          grantInput, grantOutput>>

Ids == 1..Len(store)

Verifiers == { p \in Procs : script[p] = "verifier" }

Executors == { p \in Procs : script[p] = "executor" }

\* two instances of one script run
Racing == Cardinality(Verifiers) > 1 \/ Cardinality(Executors) > 1

RecordLimit == IF Racing THEN RaceRecords ELSE MaxRecords

GrantLimit == IF Racing THEN RaceGrants ELSE MaxGrants

\* ------------------------------------------------------- lifecycle state
\* The state the stored flags stand for.
Lifecycle(doc) ==
  IF doc.transferred THEN "Transferred"
  ELSE IF doc.verified /\ doc.executed THEN "TransferFailed"
  ELSE IF doc.verified THEN "Verified"
  ELSE IF doc.executed \/ doc.verificationResults # <<>> THEN "VerificationFailed"
  ELSE "Submitted"

\* ----------------------------------------------------------- store calls
\* find({ verified: { $ne: true }, executed: false })
VerifierQuery(doc) == doc.verified # TRUE /\ doc.executed = FALSE

\* the Transfer Executor's query without its executed condition
TransferQueryIgnoringExecuted(doc) == doc.verified = TRUE /\ doc.transferred # TRUE

\* the Transfer Executor's query without its verified condition
TransferQueryIgnoringVerified(doc) == doc.executed # TRUE /\ doc.transferred # TRUE

\* find({ verified: true, executed: { $ne: true }, transferred: { $ne: true } })
TransferQuery(doc) == doc.verified = TRUE /\ doc.executed # TRUE /\ doc.transferred # TRUE

\* every document with the state it is read in, in _id order
Documents == [id \in 1..Len(store) |-> [id |-> id, was |-> Lifecycle(store[id])]]

\* find(...).toArray() of the Verifier
VerifierFind == SelectSeq(Documents, LAMBDA found : VerifierQuery(store[found.id]))

\* find(...).toArray() of the Transfer Executor
TransferFind == SelectSeq(Documents, LAMBDA found : TransferQuery(store[found.id]))

\* the $set of a missing or failed transaction, were verified: true part of it
SetExecutedAndVerified(doc, why) ==
  [doc EXCEPT !.executed = TRUE, !.verified = TRUE, !.reason = why]

\* the $set documents of the updateOne calls
SetExecuted(doc, why) == [doc EXCEPT !.executed = TRUE, !.reason = why]

SetVerified(doc, verificationResults) ==
  [doc EXCEPT !.verified = TRUE, !.verificationResults = verificationResults]

SetVerificationFailed(doc, verificationResults) ==
  [doc EXCEPT !.verified = FALSE, !.verificationResults = verificationResults,
              !.reason = "Some approvals failed verification"]

\* the $set of the empty batch, were transferred left out of it
SetNothingTransferredOpen(doc, transferResults) ==
  [doc EXCEPT !.transferResults = transferResults,
              !.reason = "No valid transfers to execute"]

SetNothingTransferred(doc, transferResults) ==
  [doc EXCEPT !.transferred = TRUE, !.transferResults = transferResults,
              !.reason = "No valid transfers to execute"]

SetTransferred(doc, signature, transferResults) ==
  [doc EXCEPT !.transferred = TRUE, !.transferTransactionSignature = signature,
              !.transferResults = transferResults]

\* ---------------------------------------------------------- ledger calls
\* connection.getTransaction: null, a transaction with meta.err, a successful
\* transaction, or a thrown network error
GetTransactionOutcomes == {"null", "err", "ok", "throw"}

\* getAccount: the token account's delegate, delegatedAmount and amount, or a throw.
\* The token program keeps delegatedAmount = 0 while no delegate is set.
AccountOutcomes(maxAmount) ==
  { info \in [ok : {TRUE}, delegate : {NoValue, "D1", "D2"},
              delegatedAmount : 0..maxAmount, amount : 0..maxAmount] :
      info.delegate = NoValue => info.delegatedAmount = 0 }
  \cup { [ok |-> FALSE, delegate |-> NoValue, delegatedAmount |-> 0, amount |-> 0] }

GetAccountOutcomes == AccountOutcomes(MaxAmount)

\* connection.getParsedTokenAccountsByOwner(destination, { mint }): .value, or a throw
DestinationOutcomes ==
  { [ok |-> FALSE, value |-> <<>>], [ok |-> TRUE, value |-> <<>>], [ok |-> TRUE, value |-> <<"DA">>] }

\* getLatestBlockhash, sendRawTransaction, confirmTransaction of one batch:
\*   "blockhashError"  getLatestBlockhash throws: nothing is sent
\*   "sendError"       sendRawTransaction throws: the batch is rejected
\*   "timeout"         the batch is accepted, confirmTransaction throws on expiry
\*   "confirmedErr"    confirmTransaction resolves with value.err set: the batch failed
\*   "confirmedOk"     confirmTransaction resolves with value.err null: the batch succeeded
SendOutcomes == {"blockhashError", "sendError", "timeout", "confirmedErr", "confirmedOk"}

\* what the ledger records of an accepted batch
BatchOutcome(send) ==
  CASE send = "timeout" -> "unconfirmed"
    [] send = "confirmedErr" -> "failed"
    [] send = "confirmedOk" -> "succeeded"
    [] OTHER -> NoValue

ErrorMessage(e) ==
  CASE e = "ledger" -> "ledger request failed"
    [] e = "store" -> "store request failed"
    [] OTHER -> "invalid input"

\* --------------------------------------------------------------- Verifier
\* one iteration of the loop over approvalList
VerifyGrant(approval, accountInfo, delegatePublicKey) ==
  IF ~IsPublicKey(approval.tokenAccount) \/ ~accountInfo.ok
  THEN [tokenAccount |-> approval.tokenAccount, verified |-> FALSE,
        reason |-> ErrorMessage(IF accountInfo.ok THEN "input" ELSE "ledger"),
        delegatedAmount |-> 0]
  ELSE LET isDelegateSet == accountInfo.delegate # NoValue
                            /\ accountInfo.delegate = delegatePublicKey
           hasAllowance == accountInfo.delegatedAmount > 0
       IN IF isDelegateSet /\ hasAllowance
          THEN [tokenAccount |-> approval.tokenAccount, verified |-> TRUE,
                reason |-> NoValue, delegatedAmount |-> accountInfo.delegatedAmount]
          ELSE [tokenAccount |-> approval.tokenAccount, verified |-> FALSE,
                reason |-> IF isDelegateSet THEN "No allowance set" ELSE "Delegate not set",
                delegatedAmount |-> 0]

\* the sequences f with f[k] in choices[k]: the results a loop can end with, one
\* entry per grant in grant order
ResultSequences(choices) ==
  { f \in [DOMAIN choices -> UNION { choices[k] : k \in DOMAIN choices }] :
      \A k \in DOMAIN choices : f[k] \in choices[k] }

\* verificationResults after the loop, for every answer getAccount can give
VerifyGrants(approvalList, delegatePublicKey) ==
  ResultSequences([k \in 1..Len(approvalList) |->
                     { VerifyGrant(approvalList[k], accountInfo, delegatePublicKey) :
                         accountInfo \in GetAccountOutcomes }])

\* allVerified, were it set by a passing grant instead of cleared by a failing one
SomeVerified(verificationResults) ==
  \E k \in 1..Len(verificationResults) : verificationResults[k].verified

\* allVerified after the loop
AllVerified(verificationResults) ==
  \A k \in 1..Len(verificationResults) : verificationResults[k].verified

\* delegateAddress || delegate: the configured delegate address if there is one,
\* otherwise the document's
DelegateToCheck(delegateAddress, delegate) ==
  IF delegateAddress # NoValue THEN delegateAddress ELSE delegate

\* --------------------------------------------------------------- drivers
Locals(p, newPc, newApprovals, newIdx, newCaught) ==
  /\ pc' = [pc EXCEPT ![p] = newPc]
  /\ approvals' = [approvals EXCEPT ![p] = newApprovals]
  /\ idx' = [idx EXCEPT ![p] = newIdx]
  /\ caught' = [caught EXCEPT ![p] = newCaught]

\* continue: the next document, or the end of the cycle (finally: client.close())
Continue(p) ==
  IF idx[p] < Len(approvals[p])
  THEN Locals(p, "loop", approvals[p], idx[p] + 1, NoValue)
  ELSE Locals(p, "idle", <<>>, 0, NoValue)

\* an error the loop does not catch: the outer catch logs it and the cycle ends
Abort(p) == Locals(p, "idle", <<>>, 0, NoValue)

\* the inner catch block is entered with error e
Catch(p, e) == Locals(p, "catch", approvals[p], idx[p], e)

\* await updateOne({ _id: id }, { $set: ... }) inside the inner try: the document
\* becomes doc, or the call throws and the document is as it was
UpdateOne(p, id, doc, marksVerified) ==
  \/ /\ store' = [store EXCEPT ![id] = doc]
     /\ everVerified' = IF marksVerified THEN everVerified \cup {id} ELSE everVerified
     /\ faults' = faults
     /\ Continue(p)
  \/ /\ faults < MaxFaults
     /\ faults' = faults + 1
     /\ Catch(p, "store")
     /\ UNCHANGED <<store, everVerified>>

\* await updateOne(...) inside the inner catch block: a throw ends the cycle
UpdateOneInCatch(p, id, doc) ==
  \/ /\ store' = [store EXCEPT ![id] = doc]
     /\ faults' = faults
     /\ Continue(p)
  \/ /\ faults < MaxFaults
     /\ faults' = faults + 1
     /\ Abort(p)
     /\ UNCHANGED store

\* the start of a cycle with the result of its find; an empty result ends the cycle
Find(p, found) ==
  /\ pc[p] = "idle"
  /\ IF Len(found) = 0
     THEN Locals(p, "idle", <<>>, 0, NoValue)
     ELSE Locals(p, "loop", found, 1, NoValue)
  /\ UNCHANGED <<store, config, script, faults, batches, everVerified, grantInput, grantOutput>>

VFind(p) == p \in Verifiers /\ Find(p, VerifierFind)

\* one iteration of the loop over approvals, up to its first store call
VProcess(p) ==
  /\ p \in Verifiers /\ pc[p] = "loop"
  /\ UNCHANGED <<config, script, batches, grantInput, grantOutput>>
  /\ LET id == approvals[p][idx[p]].id
         approvalData == store[id]
         delegateToCheck == DelegateToCheck(config.delegateAddress, approvalData.delegate)
     IN IF ~SupportedNetwork(approvalData.network) \/ delegateToCheck = NoValue
        THEN Continue(p) /\ UNCHANGED <<store, faults, everVerified>>
        ELSE IF ~IsPublicKey(delegateToCheck)
        THEN Abort(p) /\ UNCHANGED <<store, faults, everVerified>>
        ELSE \E transaction \in GetTransactionOutcomes :
          CASE transaction = "throw" ->
                 Catch(p, "ledger") /\ UNCHANGED <<store, faults, everVerified>>
            [] transaction = "null" ->
                 UpdateOne(p, id, SetExecuted(approvalData, "Transaction not found on-chain"), FALSE)
            [] transaction = "err" ->
                 UpdateOne(p, id, SetExecuted(approvalData, "Transaction failed: err"), FALSE)
            [] OTHER ->
                 \E verificationResults \in VerifyGrants(approvalData.approvals, delegateToCheck) :
                   IF AllVerified(verificationResults)
                   THEN UpdateOne(p, id, SetVerified(approvalData, verificationResults), TRUE)
                   ELSE UpdateOne(p, id, SetVerificationFailed(approvalData, verificationResults), FALSE)

\* catch (txError): updateOne({ executed: true, reason: 'Transaction fetch error: ...' })
VCatch(p) ==
  /\ p \in Verifiers /\ pc[p] = "catch"
  /\ UNCHANGED <<config, script, batches, everVerified, grantInput, grantOutput>>
  /\ LET id == approvals[p][idx[p]].id
     IN UpdateOneInCatch(p, id,
          SetExecuted(store[id], "Transaction fetch error: " \o ErrorMessage(caught[p])))

\* ------------------------------------------------------ Transfer Executor
NoInstruction == [source |-> NoValue, destination |-> NoValue, authority |-> NoValue, amount |-> 0]

GrantFailed(approval, why) ==
  [ result |-> [tokenAccount |-> approval.tokenAccount, mint |-> NoValue, amount |-> 0,
                success |-> FALSE, reason |-> why],
    added |-> FALSE, instruction |-> NoInstruction ]

\* the amount to transfer, were the comparison the other way round
LargerAmount(accountInfo) ==
  IF accountInfo.delegatedAmount > accountInfo.amount
  THEN accountInfo.delegatedAmount ELSE accountInfo.amount

\* the amount to transfer: the delegated amount or the balance, whichever is smaller
TransferAmount(accountInfo) ==
  IF accountInfo.delegatedAmount < accountInfo.amount
  THEN accountInfo.delegatedAmount ELSE accountInfo.amount

\* one iteration of the loop over approvalList: the entry pushed to transferResults
\* and the instruction added to the transaction, if one is
TransferGrant(approval, accountInfo, destinationTokenAccount, delegatePublicKey) ==
  IF ~IsPublicKey(approval.tokenAccount) THEN GrantFailed(approval, ErrorMessage("input"))
  ELSE IF ~accountInfo.ok THEN GrantFailed(approval, ErrorMessage("ledger"))
  ELSE IF accountInfo.delegate = NoValue \/ accountInfo.delegate # delegatePublicKey
       THEN GrantFailed(approval, "Delegate not set")
  ELSE IF accountInfo.delegatedAmount = 0 THEN GrantFailed(approval, "No delegated amount")
  ELSE IF TransferAmount(accountInfo) = 0 THEN GrantFailed(approval, "No balance to transfer")
  ELSE IF ~IsPublicKey(approval.mint) THEN GrantFailed(approval, ErrorMessage("input"))
  ELSE IF ~destinationTokenAccount.ok THEN GrantFailed(approval, ErrorMessage("ledger"))
  ELSE IF Len(destinationTokenAccount.value) = 0
       THEN GrantFailed(approval, "Destination token account not found")
  ELSE [ result |-> [tokenAccount |-> approval.tokenAccount, mint |-> approval.mint,
                     amount |-> TransferAmount(accountInfo), success |-> TRUE,
                     reason |-> NoValue],
         added |-> TRUE,
         instruction |-> [source |-> approval.tokenAccount,
                          destination |-> destinationTokenAccount.value[1],
                          authority |-> delegatePublicKey,
                          amount |-> TransferAmount(accountInfo)] ]

\* the loop over approvalList, for every answer getAccount and
\* getParsedTokenAccountsByOwner can give
TransferGrants(approvalList, delegatePublicKey) ==
  ResultSequences([k \in 1..Len(approvalList) |->
                     { TransferGrant(approvalList[k], accountInfo, destination, delegatePublicKey) :
                         accountInfo \in GetAccountOutcomes, destination \in DestinationOutcomes }])

\* transferResults after the loop
TransferResults(grants) == [k \in 1..Len(grants) |-> grants[k].result]

\* transaction.instructions, were an instruction added for every grant
AllInstructions(grants) == [k \in 1..Len(grants) |-> grants[k].instruction]

\* transaction.instructions after the loop
Instructions(grants) ==
  LET added == SelectSeq(grants, LAMBDA g : g.added)
  IN [k \in 1..Len(added) |-> added[k].instruction]

TFind(p) == p \in Executors /\ Find(p, TransferFind)

\* one iteration of the loop over approvals, up to its first store call
TProcess(p) ==
  /\ p \in Executors /\ pc[p] = "loop"
  /\ UNCHANGED <<config, script, grantInput, grantOutput>>
  /\ LET id == approvals[p][idx[p]].id
         approvalData == store[id]
         delegatePublicKey == getKeypairFromPrivateKey(config.delegatePrivateKey)
     IN IF \/ ~SupportedNetwork(approvalData.network)
           \/ config.delegatePrivateKey = NoValue
           \/ config.destinationAddress = NoValue
        THEN Continue(p) /\ UNCHANGED <<store, faults, batches, everVerified>>
        ELSE IF delegatePublicKey = NoValue
        THEN Catch(p, "input") /\ UNCHANGED <<store, faults, batches, everVerified>>
        ELSE IF delegatePublicKey # approvalData.delegate
        THEN Continue(p) /\ UNCHANGED <<store, faults, batches, everVerified>>
        ELSE IF ~IsPublicKey(config.destinationAddress) \/ ~IsPublicKey(approvalData.owner)
        THEN Catch(p, "input") /\ UNCHANGED <<store, faults, batches, everVerified>>
        ELSE \E grants \in TransferGrants(approvalData.approvals, delegatePublicKey) :
          LET transferResults == TransferResults(grants)
          IN IF Len(Instructions(grants)) = 0
             THEN /\ batches' = batches
                  /\ UpdateOne(p, id, SetNothingTransferred(approvalData, transferResults), FALSE)
             ELSE \E send \in SendOutcomes :
               IF BatchOutcome(send) = NoValue
               THEN Catch(p, "ledger") /\ UNCHANGED <<store, faults, batches, everVerified>>
               ELSE /\ Len(batches[id]) < MaxSubmits
                    /\ batches' = [batches EXCEPT ![id] = Append(@, BatchOutcome(send))]
                    /\ IF send = "timeout"
                       THEN Catch(p, "ledger") /\ UNCHANGED <<store, faults, everVerified>>
                       ELSE UpdateOne(p, id,
                              SetTransferred(approvalData, Len(batches[id]) + 1,
                                             transferResults), FALSE)

\* catch (transferError): updateOne({ executed: true, reason: 'Transfer error: ...' })
TCatch(p) ==
  /\ p \in Executors /\ pc[p] = "catch"
  /\ UNCHANGED <<config, script, batches, everVerified, grantInput, grantOutput>>
  /\ LET id == approvals[p][idx[p]].id
     IN UpdateOneInCatch(p, id,
          SetExecuted(store[id], "Transfer error: " \o ErrorMessage(caught[p])))

\* -------------------------------------------------------------- ingestion
Post(body) ==
  /\ PostStatus(body) = 200
  /\ Len(store) < RecordLimit
  /\ Len(body.approvals) <= GrantLimit
  /\ store' = Append(store, NewDocument(body))
  /\ UNCHANGED <<config, script, pc, approvals, idx, caught, faults, batches, everVerified,
                 grantInput, grantOutput>>

\* ---------------------------------------------------------- specification
Init ==
  /\ store = <<>>
  /\ config \in Configs
  /\ script \in Deployments
  /\ pc = [p \in Procs |-> "idle"]
  /\ approvals = [p \in Procs |-> <<>>]
  /\ idx = [p \in Procs |-> 0]
  /\ caught = [p \in Procs |-> NoValue]
  /\ faults = 0
  /\ batches = [id \in 1..(MaxRecords + RaceRecords) |-> <<>>]
  /\ everVerified = {}
  /\ grantInput = <<>>
  /\ grantOutput = <<>>

Next ==
  \/ \E body \in Requests : Post(body)
  \/ \E p \in Procs : VFind(p)
  \/ \E p \in Procs : VProcess(p)
  \/ \E p \in Procs : VCatch(p)
  \/ \E p \in Procs : TFind(p)
  \/ \E p \in Procs : TProcess(p)
  \/ \E p \in Procs : TCatch(p)

Spec == Init /\ [][Next]_vars

\* ------------------------------ runs under any configuration of the network
\* The environment may leave SOLANA_MAINNET_DELEGATE_PRIVATE_KEY or
\* SOLANA_MAINNET_DESTINATION unset or hold the key of another delegate ("K2"),
\* and a request may name a network solanaConfig has no entry for.  One
\* Verifier and one Transfer Executor run; every document has one grant.
OperatorConfigs ==
  [ delegateAddress : {"D1"}, delegatePrivateKey : {"K1", "K2", NoValue},
    destinationAddress : {"DEST", NoValue} ]

ClientRequests ==
  { [owner |-> "O1", delegate |-> "D1", approvals |-> <<GrantA>>,
     transactionSignature |-> "S1", network |-> n] : n \in {"mainnet-beta", "devnet"} }

InitConfigured ==
  /\ store = <<>>
  /\ config \in OperatorConfigs
  /\ script = [d1 |-> "verifier", d2 |-> "executor", d3 |-> "off"]
  /\ pc = [p \in Procs |-> "idle"]
  /\ approvals = [p \in Procs |-> <<>>]
  /\ idx = [p \in Procs |-> 0]
  /\ caught = [p \in Procs |-> NoValue]
  /\ faults = 0
  /\ batches = [id \in 1..(MaxRecords + RaceRecords) |-> <<>>]
  /\ everVerified = {}
  /\ grantInput = <<>>
  /\ grantOutput = <<>>

NextConfigured ==
  \/ \E body \in ClientRequests : Post(body)
  \/ \E p \in Procs : VFind(p)
  \/ \E p \in Procs : VProcess(p)
  \/ \E p \in Procs : VCatch(p)
  \/ \E p \in Procs : TFind(p)
  \/ \E p \in Procs : TProcess(p)
  \/ \E p \in Procs : TCatch(p)

SpecConfigured == InitConfigured /\ [][NextConfigured]_vars

\* ------------------------------ the verification of one document, alone
\* InitVerify draws SOLANA_MAINNET_DELEGATE (unset, or the address of either
\* delegate), the delegate field and the grants of one document and, for each
\* grant, one answer of getAccount; VerifyRecord runs the Verifier's grant loop
\* on them and decides the document.  No driver runs.
InitVerify ==
  /\ store = <<>>
  /\ config \in [ delegateAddress : {NoValue, "D1", "D2"}, delegatePrivateKey : {"K1"},
                  destinationAddress : {"DEST"} ]
  /\ script = [p \in Procs |-> "off"]
  /\ pc = [p \in Procs |-> "idle"]
  /\ approvals = [p \in Procs |-> <<>>]
  /\ idx = [p \in Procs |-> 0]
  /\ caught = [p \in Procs |-> NoValue]
  /\ faults = 0
  /\ batches = [id \in 1..(MaxRecords + RaceRecords) |-> <<>>]
  /\ everVerified = {}
  /\ \E approvalList \in ApprovalLists \ {<<>>} :
       \E delegate \in {"D1", "D2"} :
         \E answers \in [1..Len(approvalList) -> GetAccountOutcomes] :
           grantInput = [k \in 1..Len(approvalList) |->
                           [approval |-> approvalList[k], accountInfo |-> answers[k],
                            delegate |-> delegate]]
  /\ grantOutput = <<>>

\* the loop over approvalList and the choice of the update after it
VerifyRecord ==
  /\ grantOutput = <<>>
  /\ LET verificationResults ==
           [k \in 1..Len(grantInput) |->
              VerifyGrant(grantInput[k].approval, grantInput[k].accountInfo,
                          DelegateToCheck(config.delegateAddress, grantInput[k].delegate))]
     IN grantOutput' = << [verified |-> AllVerified(verificationResults),
                           verificationResults |-> verificationResults] >>
  /\ UNCHANGED <<store, config, script, pc, approvals, idx, caught, faults, batches,
                 everVerified, grantInput>>

NextVerify == VerifyRecord

SpecVerify == InitVerify /\ [][NextVerify]_vars

\* ------------------------------------------------------ the driver loop
\* runContinuously of either script, one step per await.  The cycle function is
\*   try { connect, find, loop } catch (error) { log } finally { await client.close() }
\* and the loop around it is
\*   while (true) { try { await cycle() } catch (error) { log }  await timeout }
\* pc: "idle" (top of the loop), "cycle" (inside the cycle's try), "cycleCatch",
\* "finally", "loopCatch", "sleep", "exit" (runContinuously rejected).  caught
\* holds the error in flight; faults counts the errors raised, up to MaxFaults.
CycleOutcomes == {"returned", "store", "ledger", "input"}

Raised == IF faults < MaxFaults THEN faults + 1 ELSE faults

LoopLocals(p, newPc, newCaught, newFaults) ==
  /\ pc' = [pc EXCEPT ![p] = newPc]
  /\ caught' = [caught EXCEPT ![p] = newCaught]
  /\ faults' = newFaults
  /\ UNCHANGED <<store, config, script, approvals, idx, batches, everVerified,
                 grantInput, grantOutput>>

\* await verifySolanaApprovals() / await transferApprovedTokens()
BeginCycle(p) ==
  /\ script[p] # "off" /\ pc[p] = "idle"
  /\ LoopLocals(p, "cycle", NoValue, faults)

\* the body of the cycle's try returns, or throws what its loop does not catch
EndCycle(p) ==
  /\ pc[p] = "cycle"
  /\ \E outcome \in CycleOutcomes :
       IF outcome = "returned"
       THEN LoopLocals(p, "finally", NoValue, faults)
       ELSE LoopLocals(p, "cycleCatch", outcome, Raised)

\* catch (error) { console.error(...) } of the cycle
CycleCatch(p) ==
  /\ pc[p] = "cycleCatch"
  /\ LoopLocals(p, "finally", NoValue, faults)

\* finally { await client.close() }: a throw leaves the cycle function
CloseClient(p) ==
  /\ pc[p] = "finally"
  /\ \/ LoopLocals(p, "sleep", NoValue, faults)
     \/ LoopLocals(p, "loopCatch", "store", Raised)

\* the catch of runContinuously, were the error thrown on
LoopRethrow(p) ==
  /\ pc[p] = "loopCatch"
  /\ LoopLocals(p, "exit", caught[p], faults)

\* catch (error) { console.error(...) } of runContinuously
LoopCatch(p) ==
  /\ pc[p] = "loopCatch"
  /\ LoopLocals(p, "sleep", NoValue, faults)

\* await new Promise(resolve => setTimeout(resolve, 30000)), then the next iteration
Sleep(p) ==
  /\ pc[p] = "sleep"
  /\ LoopLocals(p, "idle", NoValue, faults)

DriverStep(p) ==
  BeginCycle(p) \/ EndCycle(p) \/ CycleCatch(p) \/ CloseClient(p) \/ LoopCatch(p) \/ Sleep(p)

NextLoop ==
  \/ \E p \in Procs : BeginCycle(p)
  \/ \E p \in Procs : EndCycle(p)
  \/ \E p \in Procs : CycleCatch(p)
  \/ \E p \in Procs : CloseClient(p)
  \/ \E p \in Procs : LoopCatch(p)
  \/ \E p \in Procs : Sleep(p)

\* every driver is a process of its own: its pending continuation or timer runs
SpecLoop == Init /\ [][NextLoop]_vars /\ \A p \in Procs : WF_vars(DriverStep(p))

\* ------------------------------------------- the sizing of one grant, alone
\* Init draws one grant, one answer of getAccount and of
\* getParsedTokenAccountsByOwner and the delegate's public key; SizeGrant runs
\* the loop body of transferApprovedTokens on them.
GrantInputs ==
  [ approval : {GrantA, GrantB}, accountInfo : AccountOutcomes(MaxGrantAmount),
    destination : DestinationOutcomes, delegatePublicKey : {"D1", "D2"} ]

InitGrant ==
  /\ store = <<>>
  /\ config \in Configs
  /\ script \in Deployments
  /\ pc = [p \in Procs |-> "idle"]
  /\ approvals = [p \in Procs |-> <<>>]
  /\ idx = [p \in Procs |-> 0]
  /\ caught = [p \in Procs |-> NoValue]
  /\ faults = 0
  /\ batches = [id \in 1..(MaxRecords + RaceRecords) |-> <<>>]
  /\ everVerified = {}
  /\ grantInput \in { <<in>> : in \in GrantInputs }
  /\ grantOutput = <<>>

SizeGrant ==
  /\ grantOutput = <<>>
  /\ grantOutput' = << TransferGrant(grantInput[1].approval, grantInput[1].accountInfo,
                                     grantInput[1].destination, grantInput[1].delegatePublicKey) >>
  /\ UNCHANGED <<store, config, script, pc, approvals, idx, caught, faults, batches,
                 everVerified, grantInput>>

NextGrant == SizeGrant

SpecGrant == InitGrant /\ [][NextGrant]_vars

\* --------------------------------- the batch of one document, alone
\* InitBatch draws the grants of one document and, for each grant, one answer of
\* getAccount and of getParsedTokenAccountsByOwner; BuildBatch runs the loop of
\* transferApprovedTokens over them, with the delegate's public key "D1".  No
\* driver runs.
InitBatch ==
  /\ store = <<>>
  /\ config \in Configs
  /\ script = [p \in Procs |-> "off"]
  /\ pc = [p \in Procs |-> "idle"]
  /\ approvals = [p \in Procs |-> <<>>]
  /\ idx = [p \in Procs |-> 0]
  /\ caught = [p \in Procs |-> NoValue]
  /\ faults = 0
  /\ batches = [id \in 1..(MaxRecords + RaceRecords) |-> <<>>]
  /\ everVerified = {}
  /\ \E approvalList \in ApprovalLists \ {<<>>} :
       \E answers \in [1..Len(approvalList) ->
                         [accountInfo : GetAccountOutcomes, destination : DestinationOutcomes]] :
         grantInput = [k \in 1..Len(approvalList) |->
                         [approval |-> approvalList[k], accountInfo |-> answers[k].accountInfo,
                          destination |-> answers[k].destination, delegatePublicKey |-> "D1"]]
  /\ grantOutput = <<>>

\* the loop over approvalList: transferResults and transaction.instructions after it
BuildBatch ==
  /\ grantOutput = <<>>
  /\ LET grants == [k \in 1..Len(grantInput) |->
                      TransferGrant(grantInput[k].approval, grantInput[k].accountInfo,
                                    grantInput[k].destination, grantInput[k].delegatePublicKey)]
     IN grantOutput' = << [transferResults |-> TransferResults(grants),
                           instructions |-> Instructions(grants)] >>
  /\ UNCHANGED <<store, config, script, pc, approvals, idx, caught, faults, batches,
                 everVerified, grantInput>>

NextBatch == BuildBatch

SpecBatch == InitBatch /\ [][NextBatch]_vars

\* ================================================================ claims
\* driver p takes the step
Acts(p) == pc'[p] # pc[p] \/ idx'[p] # idx[p] \/ approvals'[p] # approvals[p]

\* the entry of its find result driver p is working on
Current(p) == approvals[p][idx[p]]

AllowedEdges ==
  { <<"Submitted", "Verified">>, <<"Submitted", "VerificationFailed">>,
    <<"Verified", "Transferred">>, <<"Verified", "TransferFailed">> }

\* C1: the lifecycle state of every document only moves along
\* Submitted -> Verified, Submitted -> VerificationFailed, Verified -> Transferred,
\* Verified -> TransferFailed; no step takes any other edge.
C1_OnlyForwardEdges ==
  [][\A id \in Ids :
       Lifecycle(store'[id]) # Lifecycle(store[id])
         => <<Lifecycle(store[id]), Lifecycle(store'[id])>> \in AllowedEdges]_vars

\* C2: over any interleaving of Transfer Executor cycles, the ledger accepts at
\* most one transfer batch for one document.
C2_AtMostOneBatch == \A id \in Ids : Len(batches[id]) <= 1

\* C3: a Verifier cycle that read a document as Submitted changes it only if the
\* document is still Submitted when its update arrives (the update is guarded by
\* the expected prior state), so of two racing cycles one writes the outcome.
C3_GuardedVerifierUpdate ==
  [][\A p \in Verifiers :
       (pc[p] # "idle" /\ Acts(p) /\ Current(p).was = "Submitted"
          /\ store'[Current(p).id] # store[Current(p).id])
         => Lifecycle(store[Current(p).id]) = "Submitted"]_vars

\* C4: a Verifier cycle never selects a document that has left Submitted
\* (Verified, VerificationFailed for any reason, Transferred, TransferFailed):
\* every document in a Verifier's find result was Submitted when it was read.
C4_VerifierSelectsOnlySubmitted ==
  \A p \in Verifiers : \A k \in 1..Len(approvals[p]) : approvals[p][k].was = "Submitted"

\* (transferred or executed is set: no Transfer Executor query matches the document)
Closed(doc) == doc.transferred \/ doc.executed

\* C5: once a document is Transferred or TransferFailed it stays closed, no
\* Transfer Executor cycle that starts afterwards selects it, and a Transfer
\* Executor changes a document or submits a batch for it only if the document is
\* the one of its find result it is working on: a failed transfer is never retried.
C5_ClosedNeverReselected ==
  [][/\ \A id \in Ids :
          /\ Lifecycle(store[id]) \in {"Transferred", "TransferFailed"} => Closed(store[id])
          /\ Closed(store[id]) => Closed(store'[id])
     /\ \A p \in Executors :
          /\ (pc[p] = "idle" /\ pc'[p] = "loop")
               => \A k \in 1..Len(approvals'[p]) : ~Closed(store[approvals'[p][k].id])
          /\ \A id \in Ids :
               (Acts(p) /\ (store'[id] # store[id] \/ batches'[id] # batches[id]))
                 => pc[p] # "idle" /\ Current(p).id = id]_vars

\* C5 witness: with one Transfer Executor, document 1 is Transferred or
\* TransferFailed and the Executor's running cycle selected document 2 alone.
C5_Witness ==
  /\ ~Racing /\ Len(store) = 2
  /\ Lifecycle(store[1]) \in {"Transferred", "TransferFailed"}
  /\ \E p \in Executors : pc[p] = "loop" /\ approvals[p] = <<[id |-> 2, was |-> "Verified"]>>

C7_VerifiedOnlyIfAllGrantsPassed ==
  \A id \in Ids :
    LET doc == store[id]
    IN /\ doc.verified =>
            /\ Len(doc.verificationResults) = Len(doc.approvals)
            /\ \A k \in 1..Len(doc.verificationResults) : doc.verificationResults[k].verified
       /\ (\E k \in 1..Len(doc.verificationResults) : ~doc.verificationResults[k].verified)
            => ~doc.verified

\* C7 witness: a Verifier stored results in which one grant passed and another
\* failed, and the document is not verified.
C7_Witness ==
  \E id \in Ids :
    /\ \E k \in 1..Len(store[id].verificationResults) : store[id].verificationResults[k].verified
    /\ \E k \in 1..Len(store[id].verificationResults) : ~store[id].verificationResults[k].verified
    /\ ~store[id].verified

Smaller(a, b) == IF a <= b THEN a ELSE b

\* C8: the instruction added for a grant carries min(delegatedAmount, amount) of
\* the account as getAccount returned it, which is greater than zero and exceeds
\* neither; the result entry records the same amount, whatever amount the grant claims.
C8_TransferAmountIsMin ==
  (grantOutput # <<>> /\ grantOutput[1].added) =>
    LET accountInfo == grantInput[1].accountInfo
        amount == grantOutput[1].instruction.amount
    IN /\ amount = Smaller(accountInfo.delegatedAmount, accountInfo.amount)
       /\ amount > 0
       /\ amount <= accountInfo.delegatedAmount /\ amount <= accountInfo.amount
       /\ grantOutput[1].result.amount = amount

\* C8 witness: an instruction whose amount is the balance, below the delegated
\* amount, and differs from the amount the grant claims.
C8_Witness ==
  /\ grantOutput # <<>> /\ grantOutput[1].added
  /\ grantInput[1].accountInfo.amount < grantInput[1].accountInfo.delegatedAmount
  /\ grantOutput[1].instruction.amount # grantInput[1].approval.amount

\* C9: a document marked transferred with a settlement signature names a batch
\* that the ledger confirmed as succeeded.
C9_TransferredOnlyIfConfirmed ==
  \A id \in Ids :
    (store[id].transferred /\ store[id].transferTransactionSignature # 0)
      => batches[id][store[id].transferTransactionSignature] = "succeeded"

\* C10: when getTransaction throws while a Verifier cycle processes a document,
\* the handling of the error leaves the store as it was (the document stays
\* Submitted and is retried in a later cycle).
C10_FetchErrorLeavesRecord ==
  [][\A p \in Verifiers :
       (pc[p] = "catch" /\ caught[p] = "ledger" /\ Acts(p)) => store' = store]_vars

\* C11: a document is immutable once Transferred: no step of any Verifier or
\* Transfer Executor cycle, including one that read the document before its
\* transferred flag was set, changes any of its fields afterwards.
C11_TransferredIsImmutable ==
  [][\A id \in Ids : store[id].transferred => store'[id] = store[id]]_vars

\* the delegation event a document records
DelegationEvent(doc) == <<doc.transactionSignature, doc.owner, doc.delegate, doc.network>>

\* C13: no two stored documents record the same delegation event (the same claim
\* transaction signature, owner, delegate and network).
C13_OneRecordPerDelegation ==
  \A i \in Ids : \A j \in Ids :
    i # j => DelegationEvent(store[i]) # DelegationEvent(store[j])

\* C14: a driver that has documents of its find result left to process never ends
\* its cycle: whatever the step on the current document raises, the driver goes
\* on with the same find result.
C14_ErrorNeverAbortsCycle ==
  [][\A p \in Procs :
       (pc[p] # "idle" /\ idx[p] < Len(approvals[p]) /\ Acts(p))
         => (pc'[p] # "idle" /\ approvals'[p] = approvals[p])]_vars

\* C20: a document that is TransferFailed has no batch that took effect on the
\* ledger: none of the batches the ledger accepted for it succeeded.
C20_TransferFailedMeansNothingLanded ==
  \A id \in Ids :
    Lifecycle(store[id]) = "TransferFailed"
      => \A k \in 1..Len(batches[id]) : batches[id][k] # "succeeded"

\* C15: when a Transfer Executor finds no grant of a document transferable, it
\* submits no batch and writes transferred: true with one failed result per grant,
\* each naming its token account and a reason, and no settlement signature; a
\* write of results without a success goes with no batch; transferred is never
\* unset and no Transfer Executor cycle that starts later selects the document.
C15_EmptyBatchClosesRecord ==
  [][\A p \in Executors :
       /\ \A id \in Ids :
            (pc[p] = "loop" /\ Acts(p) /\ Current(p).id = id /\ store'[id] # store[id])
              => /\ batches'[id] = batches[id] =>
                      /\ store'[id].transferred
                      /\ store'[id].reason = "No valid transfers to execute"
                      /\ store'[id].transferTransactionSignature
                           = store[id].transferTransactionSignature
                      /\ Len(store'[id].transferResults) = Len(store[id].approvals)
                      /\ \A k \in 1..Len(store'[id].transferResults) :
                           /\ ~store'[id].transferResults[k].success
                           /\ store'[id].transferResults[k].reason # NoValue
                           /\ store'[id].transferResults[k].tokenAccount
                                = store[id].approvals[k].tokenAccount
                 /\ (\A k \in 1..Len(store'[id].transferResults) :
                       ~store'[id].transferResults[k].success)
                      => batches'[id] = batches[id]
       /\ \A id \in Ids : store[id].transferred => store'[id].transferred
       /\ (pc[p] = "idle" /\ pc'[p] = "loop")
            => \A k \in 1..Len(approvals'[p]) : ~store[approvals'[p][k].id].transferred]_vars

\* C15 witness: document 1, of two grants, was closed with two failed results and
\* no batch, and the cycle of a Transfer Executor that started afterwards selected
\* document 2 alone.
C15_Witness ==
  /\ Len(store) = 2
  /\ store[1].transferred /\ store[1].reason = "No valid transfers to execute"
  /\ Len(store[1].transferResults) = 2 /\ batches[1] = <<>>
  /\ \E p \in Executors : pc[p] = "loop" /\ approvals[p] = <<[id |-> 2, was |-> "Verified"]>>

\* the reasons the Verifier writes for a missing and for a failed transaction
ClaimTransactionReasons == {"Transaction not found on-chain", "Transaction failed: err"}

GrantCheckFailed(doc) ==
  ~doc.verified /\ ~doc.executed /\ ~doc.transferred /\ doc.verificationResults # <<>>

\* C18: the reason of a document that failed for a grant references the grant's
\* token account and the failing condition: two single-grant documents that failed
\* for different token accounts or conditions carry different reasons.
C18_FailedReasonNamesGrant ==
  \A i \in Ids : \A j \in Ids :
    ( /\ GrantCheckFailed(store[i]) /\ GrantCheckFailed(store[j])
      /\ Len(store[i].verificationResults) = 1 /\ Len(store[j].verificationResults) = 1
      /\ <<store[i].verificationResults[1].tokenAccount, store[i].verificationResults[1].reason>>
           # <<store[j].verificationResults[1].tokenAccount, store[j].verificationResults[1].reason>> )
      => store[i].reason # store[j].reason

\* grant k of the batch input passes the pre-submission checks
Passes(k) ==
  LET in == grantInput[k]
  IN /\ in.accountInfo.ok
     /\ in.accountInfo.delegate = in.delegatePublicKey
     /\ in.accountInfo.delegatedAmount > 0 /\ in.accountInfo.amount > 0
     /\ in.destination.ok /\ Len(in.destination.value) > 0

\* the token accounts of the passing grants, in grant order
PassingAccounts ==
  LET passing == SelectSeq([k \in 1..Len(grantInput) |-> k], Passes)
  IN [n \in 1..Len(passing) |-> grantInput[passing[n]].approval.tokenAccount]

\* C16: the results hold one entry per grant in grant order, successful exactly
\* for the grants that pass the checks; a failing grant carries the reason of the
\* check it failed; the batch holds one instruction per passing grant, in grant
\* order, and none for a failing grant.
C16_OneInstructionPerPassingGrant ==
  grantOutput # <<>> =>
    LET transferResults == grantOutput[1].transferResults
        instructions == grantOutput[1].instructions
    IN /\ Len(transferResults) = Len(grantInput)
       /\ \A k \in 1..Len(grantInput) :
            LET info == grantInput[k].accountInfo
            IN /\ transferResults[k].tokenAccount = grantInput[k].approval.tokenAccount
               /\ transferResults[k].success = Passes(k)
               /\ ~Passes(k) => transferResults[k].reason # NoValue
               /\ (info.ok /\ info.delegate # grantInput[k].delegatePublicKey)
                    => transferResults[k].reason = "Delegate not set"
               /\ (info.ok /\ info.delegate = grantInput[k].delegatePublicKey
                     /\ info.delegatedAmount = 0)
                    => transferResults[k].reason = "No delegated amount"
               /\ (info.ok /\ info.delegate = grantInput[k].delegatePublicKey
                     /\ info.delegatedAmount > 0 /\ info.amount = 0)
                    => transferResults[k].reason = "No balance to transfer"
               /\ (info.ok /\ info.delegate = grantInput[k].delegatePublicKey
                     /\ info.delegatedAmount > 0 /\ info.amount > 0
                     /\ grantInput[k].destination.ok
                     /\ Len(grantInput[k].destination.value) = 0)
                    => transferResults[k].reason = "Destination token account not found"
       /\ [n \in 1..Len(instructions) |-> instructions[n].source] = PassingAccounts

\* C16 witness: of three grants the first and the third fail, for different
\* reasons, and the batch holds the instruction of the second alone.
C16_Witness ==
  /\ grantOutput # <<>> /\ Len(grantInput) = 3
  /\ ~Passes(1) /\ Passes(2) /\ ~Passes(3)
  /\ grantOutput[1].transferResults[1].reason # grantOutput[1].transferResults[3].reason
  /\ Len(grantOutput[1].instructions) = 1

\* the configuration problems under which driver p skips document doc
ConfigurationProblem(p, doc) ==
  \/ doc.network # "mainnet-beta"
  \/ /\ p \in Executors
     /\ \/ config.delegatePrivateKey = NoValue
        \/ config.destinationAddress = NoValue
        \/ /\ getKeypairFromPrivateKey(config.delegatePrivateKey) # NoValue
           /\ getKeypairFromPrivateKey(config.delegatePrivateKey) # doc.delegate

\* C12: when the network of the document a driver is working on is unknown, or
\* (Transfer Executor) the network has no delegate key or no destination address
\* or its key's public address differs from the document's delegate, the step
\* writes nothing to the store, submits no batch and raises no error, and the
\* driver goes on; the document stays as it was, eligible for the next cycle.
C12_ConfigurationProblemSkips ==
  [][\A p \in Procs :
       (pc[p] = "loop" /\ Acts(p) /\ ConfigurationProblem(p, store[Current(p).id]))
         => /\ store' = store
            /\ batches' = batches
            /\ pc'[p] # "catch"
            /\ p \in Verifiers => VerifierQuery(store'[Current(p).id])
            /\ p \in Executors => TransferQuery(store'[Current(p).id])]_vars

\* C12 witness: a Transfer Executor whose key is another delegate's has skipped
\* the first document of its find result and is at the second; the first is
\* still Verified and the ledger has no batch for it.
C12_Witness ==
  /\ getKeypairFromPrivateKey(config.delegatePrivateKey) = "D2"
  /\ \E p \in Executors :
       /\ pc[p] = "loop" /\ idx[p] = 2
       /\ Lifecycle(store[approvals[p][1].id]) = "Verified"
       /\ batches[approvals[p][1].id] = <<>>

\* C19: no driver loop ever exits, and every running driver begins a cycle again
\* and again, whatever its cycles raise.
C19_NewCycleAlwaysBegins ==
  \A p \in Procs : []<>(pc[p] # "exit" /\ (script[p] = "off" \/ pc[p] = "cycle"))

\* C19 witness: a driver is inside a cycle after every error the bound allows was
\* raised, while another driver is in the catch block of runContinuously with the
\* error of closing the store client.
C19_Witness ==
  /\ faults = MaxFaults
  /\ \E p \in Procs : pc[p] = "cycle"
  /\ \E p \in Procs : pc[p] = "loopCatch" /\ caught[p] = "store"

\* C21: when the Verifier decides a document is verified, the delegate getAccount
\* returned for every one of its token accounts is the document's own delegate
\* field, whatever delegate address is configured.
C21_VerifiedAgainstRecordDelegate ==
  (grantOutput # <<>> /\ grantOutput[1].verified)
    => \A k \in 1..Len(grantInput) :
         grantInput[k].accountInfo.delegate = grantInput[k].delegate

====
